---- MODULE Spec2Model ----
(***************************************************************************)
(* The two in-memory example providers of anibridge_example_provider:      *)
(* ExampleListProvider (example_list.py) and ExampleLibraryProvider        *)
(* (example_library.py).                                                   *)
(*                                                                         *)
(* Python objects live in a heap: an entry is a reference (an index into   *)
(* `heap`), so "the same entry" and "a new entry" mean what they mean in   *)
(* Python.  An optional value (T | None) is a sequence: <<>> is None and   *)
(* <<v>> is the value v.  A str that the code takes apart (titles, search  *)
(* queries) is a sequence of one-character strings; a str that is only     *)
(* compared (keys, URLs) is a TLA+ string.                                 *)
(***************************************************************************)
EXTENDS Integers, Sequences, FiniteSets, TLC

VARIABLES
    config,     \* ExampleListProvider._config
    user,       \* ExampleListProvider._user
    entries,    \* ExampleListProvider._entries: insertion-ordered dict key -> entry
    heap,       \* the ExampleListEntry objects created so far, by reference
    libConfig,  \* ExampleLibraryProvider._config
    libUser,    \* ExampleLibraryProvider._user
    sections,   \* ExampleLibraryProvider._sections
    items,      \* ExampleLibraryProvider._items
    now,        \* datetime.now(UTC) read by _build_fixtures, in days
    ret,        \* the last call: its name, arguments, return value or raised error
    peer,       \* a second ExampleListProvider: its _config, _user, _entries
                \* and the entry objects its own __init__ created
    calls       \* the number of calls made, where a specification bounds it

vars == <<config, user, entries, heap, libConfig, libUser, sections, items, now, ret, peer, calls>>

listVars == <<config, user, entries, heap>>
libVars == <<libConfig, libUser, sections, items, now>>

(***************************************************************************)
(* Bounds of the model.                                                    *)
(***************************************************************************)
\* entry objects ever created (the two fixtures included)
MaxObjs == 4
\* the library fixtures are built on day MaxDays; cutoffs range over 0..MaxDays+1
MaxDays == 4
\* calls made in the specification of two list providers
MaxCalls == 2

(***************************************************************************)
(* Python values.                                                          *)
(***************************************************************************)
None == <<>>
Some(v) == <<v>>

Range(s) == {s[i] : i \in DOMAIN s}

\* str.lower / str.upper on one character (ASCII letters)
LowerCase == <<"a","b","c","d","e","f","g","h","i","j","k","l","m",
               "n","o","p","q","r","s","t","u","v","w","x","y","z">>
UpperCase == <<"A","B","C","D","E","F","G","H","I","J","K","L","M",
               "N","O","P","Q","R","S","T","U","V","W","X","Y","Z">>

LowerLetters == Range(LowerCase)
UpperLetters == Range(UpperCase)

ToLower == [c \in UpperLetters |-> LowerCase[CHOOSE i \in DOMAIN UpperCase : UpperCase[i] = c]]
ToUpper == [c \in LowerLetters |-> UpperCase[CHOOSE i \in DOMAIN LowerCase : LowerCase[i] = c]]

IsCased(c) == c \in LowerLetters \/ c \in UpperLetters

LowerChar(c) == IF c \in UpperLetters THEN ToLower[c] ELSE c

UpperChar(c) == IF c \in LowerLetters THEN ToUpper[c] ELSE c

\* str.lower()
Lower(s) == [i \in DOMAIN s |-> LowerChar(s[i])]

\* str.replace(old, new) for one-character old and new
Replace(s, old, new) == [i \in DOMAIN s |-> IF s[i] = old THEN new ELSE s[i]]

\* str.title(): a cased character is upper-cased after an uncased one (or at
\* the start) and lower-cased after a cased one
StrTitle(s) ==
    [i \in DOMAIN s |->
        IF ~IsCased(s[i]) THEN s[i]
        ELSE IF i > 1 /\ IsCased(s[i - 1]) THEN LowerChar(s[i])
        ELSE UpperChar(s[i])]

\* needle in haystack
Contains(haystack, needle) ==
    \E off \in 0..(Len(haystack) - Len(needle)) :
        \A j \in 1..Len(needle) : haystack[off + j] = needle[j]

\* the characters of the media keys used as inputs
Chars(key) ==
    CASE key = "cowboy-bebop" -> <<"c","o","w","b","o","y","-","b","e","b","o","p">>
      [] key = "your-name"    -> <<"y","o","u","r","-","n","a","m","e">>

\* anibridge.list.ListStatus / ListMediaType: Enum.value and Enum(value)
StatusValue(status) ==
    CASE status = "COMPLETED" -> "completed"
      [] status = "PLANNING"  -> "planning"

StatusOfValue(value) ==
    CASE value = "completed" -> "COMPLETED"
      [] value = "planning"  -> "PLANNING"

MediaTypeValue(media_type) ==
    CASE media_type = "TV"    -> "tv"
      [] media_type = "MOVIE" -> "movie"

MediaTypeOfValue(value) ==
    CASE value = "tv"    -> "TV"
      [] value = "movie" -> "MOVIE"

\* datetime.isoformat(): the date fields, then the UTC offset when aware
IsoFormat(dt) ==
    <<dt.month, dt.day, IF dt.tzinfo = "UTC" THEN "+00:00" ELSE "">>

\* datetime.fromisoformat()
FromIsoFormat(s) ==
    [month |-> s[1], day |-> s[2],
     tzinfo |-> IF s[3] = "+00:00" THEN "UTC" ELSE "naive"]

(***************************************************************************)
(* Inputs.                                                                 *)
(***************************************************************************)
Keys == {"cowboy-bebop", "your-name"}

Queries ==
    { <<>>,
      <<"B","E","B","O","P">>,
      <<"N","a","m","e">>,
      <<"z">> }

\* the config argument of a constructor: None (or {}), or all keys given
NoConfig == [user_key |-> None, user_title |-> None, default_title |-> None]

Configs ==
    { NoConfig,
      [user_key |-> Some("alice"), user_title |-> Some("Alice"),
       default_title |-> Some(<<"U","n","t","i","t","l","e","d">>)] }

\* dict.get(name, default)
ConfigGet(value, default) == IF value # None THEN value[1] ELSE default

Refs == 1..Len(heap)

(***************************************************************************)
(* ExampleListMedia, ExampleListEntry.                                     *)
(***************************************************************************)
ExampleListMedia(key, title, media_type, poster_image, total_units) ==
    [key |-> key, title |-> title, media_type |-> media_type,
     provider |-> "example-list",
     poster_image |-> poster_image, total_units |-> total_units]

ExampleListEntry(key, title, media, progress, repeats, review, status, user_rating, started_at, finished_at) ==
    [key |-> key, title |-> title, provider |-> "example-list", media |-> media,
     progress |-> progress, repeats |-> repeats, review |-> review,
     status |-> status, user_rating |-> user_rating,
     started_at |-> started_at, finished_at |-> finished_at]

\* ExampleListEntry.total_units mirrors the media's
TotalUnits(entry) == entry.media.total_units

(***************************************************************************)
(* The entry mapping: a Python dict, as the sequence of its (key, entry    *)
(* reference) pairs in iteration order.                                    *)
(***************************************************************************)
DictKeys(map) == {map[i].key : i \in DOMAIN map}

\* dict.values()
DictValues(map) == [i \in DOMAIN map |-> map[i].ref]

\* dict.get(key)
DictGet(map, key) ==
    IF key \in DictKeys(map)
    THEN Some(map[CHOOSE i \in DOMAIN map : map[i].key = key].ref)
    ELSE None

\* (variant: the pair is appended even when the key is present)
DictSetAppends(map, key, ref) == Append(map, [key |-> key, ref |-> ref])

\* d[key] = ref: a present key keeps its place, a new key goes last
DictSet(map, key, ref) ==
    IF key \in DictKeys(map)
    THEN [i \in DOMAIN map |-> IF map[i].key = key THEN [key |-> key, ref |-> ref] ELSE map[i]]
    ELSE Append(map, [key |-> key, ref |-> ref])

\* d.pop(key, None)
DictPop(map, key) == SelectSeq(map, LAMBDA slot : slot.key # key)

(***************************************************************************)
(* ExampleListProvider.                                                    *)
(***************************************************************************)
CowboyBebopTitle == <<"C","o","w","b","o","y"," ","B","e","b","o","p">>
YourNameTitle == <<"Y","o","u","r"," ","N","a","m","e">>

\* datetime.now(UTC).replace(month=..., day=...)
UtcDate(month, day) == [month |-> month, day |-> day, tzinfo |-> "UTC"]

\* _build_example_entries: the two seeded entry objects ...
ExampleEntryObjects ==
    LET watch_media == ExampleListMedia("cowboy-bebop", CowboyBebopTitle, "TV",
                           Some("https://example.invalid/bebop.jpg"), Some(26))
        movie_media == ExampleListMedia("your-name", YourNameTitle, "MOVIE",
                           Some("https://example.invalid/your-name.jpg"), Some(1))
    IN  << ExampleListEntry(watch_media.key, watch_media.title, watch_media,
               Some(26), None, None, Some("COMPLETED"), Some(95),
               Some(UtcDate(1, 5)), Some(UtcDate(2, 1))),
           ExampleListEntry(movie_media.key, movie_media.title, movie_media,
               None, None, None, Some("PLANNING"), None, None, None) >>

\* ... and the mapping that holds them under their media keys
ExampleEntries ==
    [i \in DOMAIN ExampleEntryObjects |->
        [key |-> ExampleEntryObjects[i].media.key, ref |-> i]]

\* _encode_entry
EncodeEntry(entry) ==
    [key |-> entry.key,
     title |-> entry.title,
     status |-> IF entry.status # None THEN Some(StatusValue(entry.status[1])) ELSE None,
     progress |-> entry.progress,
     repeats |-> entry.repeats,
     review |-> entry.review,
     user_rating |-> entry.user_rating,
     started_at |-> IF entry.started_at # None
                    THEN Some(IsoFormat(entry.started_at[1])) ELSE None,
     finished_at |-> IF entry.finished_at # None
                     THEN Some(IsoFormat(entry.finished_at[1])) ELSE None,
     media_type |-> MediaTypeValue(entry.media.media_type),
     total_units |-> TotalUnits(entry)]

\* _parse_date
ParseDate(value) ==
    IF value = None THEN None ELSE Some(FromIsoFormat(value[1]))

\* _decode_entry
DecodeEntry(data) ==
    LET media == ExampleListMedia(data.key, data.title,
                     MediaTypeOfValue(data.media_type), None, data.total_units)
    IN  ExampleListEntry(data.key, data.title, media,
            data.progress, data.repeats, data.review,
            IF data.status # None THEN Some(StatusOfValue(data.status[1])) ELSE None,
            data.user_rating,
            ParseDate(data.started_at), ParseDate(data.finished_at))

\* (variant: the default user key instead of the configured one)
BackupPayloadDefaultUser(userKey, map, objects) ==
    [user |-> "demo-user",
     entries |-> [i \in DOMAIN map |-> EncodeEntry(objects[map[i].ref])]]

\* the payload backup_list serializes
BackupPayload(userKey, map, objects) ==
    [user |-> userKey,
     entries |-> [i \in DOMAIN map |-> EncodeEntry(objects[map[i].ref])]]

Backup == BackupPayload(user.key, entries, heap)

\* the entry build_entry constructs
BuildEntry(key) ==
    LET media == ExampleListMedia(key,
                     ConfigGet(config.default_title,
                               StrTitle(Replace(Chars(key), "-", " "))),
                     "TV", None, None)
    IN  ExampleListEntry(key, media.title, media,
                         None, None, None, None, None, None, None)

\* (variant: the title is not lower-cased)
SearchCaseSensitive(query) ==
    LET needle == Lower(query)
    IN  SelectSeq(DictValues(entries),
                  LAMBDA ref : Contains(heap[ref].title, needle))

\* the list search builds
Search(query) ==
    LET needle == Lower(query)
    IN  SelectSeq(DictValues(entries),
                  LAMBDA ref : Contains(Lower(heap[ref].title), needle))

GetEntry(key) == DictGet(entries, key)

backup_list ==
    /\ ret' = [op |-> "backup_list", raised |-> "", val |-> Backup]
    /\ UNCHANGED <<listVars, libVars>>

\* (variant: the new entry is also stored under its key)
build_entry_stores(key) ==
    /\ Len(heap) < MaxObjs
    /\ heap' = Append(heap, BuildEntry(key))
    /\ entries' = DictSet(entries, key, Len(heap) + 1)
    /\ ret' = [op |-> "build_entry", raised |-> "", key |-> key, val |-> Len(heap) + 1]
    /\ UNCHANGED <<config, user, libVars>>

build_entry(key) ==
    /\ Len(heap) < MaxObjs
    /\ heap' = Append(heap, BuildEntry(key))
    /\ ret' = [op |-> "build_entry", raised |-> "", key |-> key, val |-> Len(heap) + 1]
    /\ UNCHANGED <<config, user, entries, libVars>>

\* (variant: del self._entries[key], a KeyError when the key is absent)
delete_entry_del(key) ==
    /\ entries' = DictPop(entries, key)
    /\ ret' = [op |-> "delete_entry",
               raised |-> IF key \in DictKeys(entries) THEN "" ELSE "KeyError",
               key |-> key, val |-> None]
    /\ UNCHANGED <<config, user, heap, libVars>>

delete_entry(key) ==
    /\ entries' = DictPop(entries, key)
    /\ ret' = [op |-> "delete_entry", raised |-> "", key |-> key, val |-> None]
    /\ UNCHANGED <<config, user, heap, libVars>>

get_entry(key) ==
    /\ ret' = [op |-> "get_entry", raised |-> "", key |-> key, val |-> GetEntry(key)]
    /\ UNCHANGED <<listVars, libVars>>

\* the backup argument: the text of a document, or text that is no document
BackupArgs == {Some(Backup), Some([user |-> "", entries |-> <<>>]), None}

\* (variant: a restore that replaces the mapping by the document's entries)
restore_list_replaces(backup) ==
    /\ entries' = IF backup = None THEN entries
                  ELSE SelectSeq(entries,
                           LAMBDA slot : \E i \in DOMAIN backup[1].entries :
                                             backup[1].entries[i].key = slot.key)
    /\ ret' = [op |-> "restore_list", raised |-> ""]
    /\ UNCHANGED <<config, user, heap, libVars>>

restore_list(backup) ==
    /\ ret' = [op |-> "restore_list", raised |-> "NotImplementedError"]
    /\ UNCHANGED <<listVars, libVars>>

search(query) ==
    /\ ret' = [op |-> "search", raised |-> "", query |-> query, val |-> Search(query)]
    /\ UNCHANGED <<listVars, libVars>>

\* (variant: a copy of the entry is stored instead of the entry)
update_entry_copies(key, entry) ==
    /\ Len(heap) < MaxObjs
    /\ heap' = Append(heap, heap[entry])
    /\ entries' = DictSet(entries, key, Len(heap) + 1)
    /\ ret' = [op |-> "update_entry", raised |-> "", key |-> key, entry |-> entry,
               val |-> entry]
    /\ UNCHANGED <<config, user, libVars>>



update_entry(key, entry) ==
    /\ entries' = DictSet(entries, key, entry)
    /\ ret' = [op |-> "update_entry", raised |-> "", key |-> key, entry |-> entry,
               val |-> entry]
    /\ UNCHANGED <<config, user, heap, libVars>>

\* the lifecycle hooks of the list provider: each body is "return None"
clear_cache ==
    /\ ret' = [op |-> "clear_cache", raised |-> "", val |-> None]
    /\ UNCHANGED <<listVars, libVars>>

\* (variant: closing drops the stored entries)
close_releases ==
    /\ entries' = <<>>
    /\ ret' = [op |-> "close", raised |-> "", val |-> None]
    /\ UNCHANGED <<config, user, heap, libVars>>

close ==
    /\ ret' = [op |-> "close", raised |-> "", val |-> None]
    /\ UNCHANGED <<listVars, libVars>>

initialize ==
    /\ ret' = [op |-> "initialize", raised |-> "", val |-> None]
    /\ UNCHANGED <<listVars, libVars>>

\* ExampleListProvider.user
list_user ==
    /\ ret' = [op |-> "user", raised |-> "", val |-> Some(user)]
    /\ UNCHANGED <<listVars, libVars>>

(***************************************************************************)
(* The manual restore of tests/test_example_list.py: take a backup, delete *)
(* every stored key, then decode each record and store it under its own    *)
(* key.                                                                    *)
(***************************************************************************)
RECURSIVE DeleteAll(_, _)
DeleteAll(map, keys) ==
    IF keys = <<>> THEN map ELSE DeleteAll(DictPop(map, Head(keys)), Tail(keys))

RECURSIVE Reinsert(_, _, _)
Reinsert(records, map, objects) ==
    IF records = <<>> THEN [map |-> map, objects |-> objects]
    ELSE LET entry == DecodeEntry(Head(records))
             ref == Len(objects) + 1
         IN  Reinsert(Tail(records), DictSet(map, entry.key, ref),
                      Append(objects, entry))

ManualRestore ==
    LET payload == Backup
        emptied == DeleteAll(entries, [i \in DOMAIN entries |-> entries[i].key])
    IN  Reinsert(payload.entries, emptied, heap)

manual_restore ==
    /\ Len(heap) + Len(entries) <= MaxObjs
    /\ entries' = ManualRestore.map
    /\ heap' = ManualRestore.objects
    /\ ret' = [op |-> "manual_restore", raised |-> "", val |-> Backup]
    /\ UNCHANGED <<config, user, libVars>>

(***************************************************************************)
(* ExampleLibraryProvider.  A section is an object: `id` is its identity.  *)
(***************************************************************************)
ExampleLibrarySection(id, key, title, media_kind) ==
    [id |-> id, key |-> key, title |-> title, media_kind |-> media_kind,
     provider |-> "example-library"]

ExampleLibraryMovie(key, title, section_ref, last_modified, poster_image, user_rating, view_count, history, ids, review, on_watching, on_watchlist) ==
    [key |-> key, title |-> title, media_kind |-> "MOVIE",
     section_ref |-> section_ref, last_modified |-> last_modified,
     provider |-> "example-library", poster_image |-> poster_image,
     user_rating |-> user_rating, view_count |-> view_count,
     history |-> history, ids |-> ids, review |-> review,
     on_watching |-> on_watching, on_watchlist |-> on_watchlist]

\* _build_fixtures: the section ...
FixtureSections == << ExampleLibrarySection(1, "movies", "Demo Movies", "MOVIE") >>

\* ... and the two movies, built at time t (the title of the second is
\* written here without its diaeresis)
FixtureItems(t) ==
    LET movies == FixtureSections[1]
    IN  << ExampleLibraryMovie("castle-in-the-sky", "Castle in the Sky", movies,
               t - 3, Some("https://example.invalid/castle.jpg"), Some(90), 2,
               << [library_key |-> "castle-in-the-sky", viewed_at |-> t - 10] >>,
               << [namespace |-> "anilist", value |-> "513"] >>,
               Some("Still magical on every rewatch."), FALSE, FALSE),
           ExampleLibraryMovie("nausicaa", "Nausicaa of the Valley of the Wind", movies,
               t - 1, Some("https://example.invalid/nausicaa.jpg"), None, 0,
               <<>>,
               << [namespace |-> "imdb", value |-> "tt0085213"] >>,
               None, FALSE, TRUE) >>

\* section objects a caller can pass: the provider's own, another object with
\* the same key, and a section with another key
SectionArgs ==
    Range(sections) \cup
    { ExampleLibrarySection(2, "movies", "Demo Movies", "MOVIE"),
      ExampleLibrarySection(3, "shows", "Demo Shows", "SHOW") }

CutoffArgs == {None} \cup {Some(d) : d \in 0..(MaxDays + 1)}

KeysArgs ==
    { None,
      Some(<<>>),
      Some(<<"castle-in-the-sky">>),
      Some(<<"nausicaa">>),
      Some(<<"nausicaa", "castle-in-the-sky">>),
      Some(<<"totoro", "nausicaa", "nausicaa">>) }

Requests == {"POST /webhook", "GET /"}

\* (variant: sections compared by key instead of by object)
SectionEqByKey(a, b) == a.key = b.key

\* item.section() == section: ExampleLibrarySection defines no __eq__, two
\* sections are equal when they are the same object
SectionEq(a, b) == a.id = b.id

\* (variant: the cutoff compared with > instead of >=)
ListItemsStrictCutoff(section, min_last_modified, require_watched, keys) ==
    IF section.key \notin {sections[i].key : i \in DOMAIN sections} THEN <<>>
    ELSE
        LET bySection == SelectSeq(items, LAMBDA item : SectionEq(item.section_ref, section))
            byCutoff ==
                IF min_last_modified # None
                THEN SelectSeq(bySection,
                         LAMBDA item : item.last_modified > min_last_modified[1])
                ELSE bySection
            byWatched ==
                IF require_watched
                THEN SelectSeq(byCutoff, LAMBDA item : item.view_count > 0)
                ELSE byCutoff
            byKeys ==
                IF keys # None
                THEN LET allowed == Range(keys[1])
                     IN  SelectSeq(byWatched, LAMBDA item : item.key \in allowed)
                ELSE byWatched
        IN  byKeys

\* list_items
ListItems(section, min_last_modified, require_watched, keys) ==
    IF section.key \notin {sections[i].key : i \in DOMAIN sections} THEN <<>>
    ELSE
        LET bySection == SelectSeq(items, LAMBDA item : SectionEq(item.section_ref, section))
            byCutoff ==
                IF min_last_modified # None
                THEN SelectSeq(bySection,
                         LAMBDA item : item.last_modified >= min_last_modified[1])
                ELSE bySection
            byWatched ==
                IF require_watched
                THEN SelectSeq(byCutoff, LAMBDA item : item.view_count > 0)
                ELSE byCutoff
            byKeys ==
                IF keys # None
                THEN LET allowed == Range(keys[1])
                     IN  SelectSeq(byWatched, LAMBDA item : item.key \in allowed)
                ELSE byWatched
        IN  byKeys

get_sections ==
    /\ ret' = [op |-> "get_sections", raised |-> "", val |-> sections]
    /\ UNCHANGED <<listVars, libVars>>

list_items(section, min_last_modified, require_watched, keys) ==
    /\ ret' = [op |-> "list_items", raised |-> "",
               section |-> section, min_last_modified |-> min_last_modified,
               require_watched |-> require_watched, keys |-> keys,
               val |-> ListItems(section, min_last_modified, require_watched, keys)]
    /\ UNCHANGED <<listVars, libVars>>

parse_webhook(request) ==
    /\ ret' = [op |-> "parse_webhook", raised |-> "NotImplementedError"]
    /\ UNCHANGED <<listVars, libVars>>

\* the lifecycle hooks of the library provider: each body is "return None"
library_initialize ==
    /\ ret' = [op |-> "library.initialize", raised |-> "", val |-> None]
    /\ UNCHANGED <<listVars, libVars>>

\* ExampleLibraryProvider.user
library_user ==
    /\ ret' = [op |-> "library.user", raised |-> "", val |-> Some(libUser)]
    /\ UNCHANGED <<listVars, libVars>>

library_clear_cache ==
    /\ ret' = [op |-> "library.clear_cache", raised |-> "", val |-> None]
    /\ UNCHANGED <<listVars, libVars>>

\* (variant: closing drops the items)
library_close_releases ==
    /\ items' = <<>>
    /\ ret' = [op |-> "library.close", raised |-> "", val |-> None]
    /\ UNCHANGED <<listVars, libConfig, libUser, sections, now>>

library_close ==
    /\ ret' = [op |-> "library.close", raised |-> "", val |-> None]
    /\ UNCHANGED <<listVars, libVars>>

(***************************************************************************)
(* The property setters of ExampleListEntry: the caller assigns a field of *)
(* an entry object it holds.                                               *)
(***************************************************************************)
ProgressArgs == {None, Some(12)}
RepeatsArgs == {None, Some(1)}
ReviewArgs == {None, Some("Rewatched.")}
StatusArgs == {None, Some("COMPLETED")}
RatingArgs == {None, Some(80)}
StartedArgs == {None, Some(UtcDate(3, 9))}
FinishedArgs == {None, Some(UtcDate(3, 10))}

set_progress(entry, value) ==
    /\ heap' = [heap EXCEPT ![entry].progress = value]
    /\ ret' = [op |-> "progress", raised |-> "", entry |-> entry, value |-> value]
    /\ UNCHANGED <<config, user, entries, libVars>>

set_repeats(entry, value) ==
    /\ heap' = [heap EXCEPT ![entry].repeats = value]
    /\ ret' = [op |-> "repeats", raised |-> "", entry |-> entry, value |-> value]
    /\ UNCHANGED <<config, user, entries, libVars>>

set_review(entry, value) ==
    /\ heap' = [heap EXCEPT ![entry].review = value]
    /\ ret' = [op |-> "review", raised |-> "", entry |-> entry, value |-> value]
    /\ UNCHANGED <<config, user, entries, libVars>>

set_status(entry, value) ==
    /\ heap' = [heap EXCEPT ![entry].status = value]
    /\ ret' = [op |-> "status", raised |-> "", entry |-> entry, value |-> value]
    /\ UNCHANGED <<config, user, entries, libVars>>

set_user_rating(entry, value) ==
    /\ heap' = [heap EXCEPT ![entry].user_rating = value]
    /\ ret' = [op |-> "user_rating", raised |-> "", entry |-> entry, value |-> value]
    /\ UNCHANGED <<config, user, entries, libVars>>

set_started_at(entry, value) ==
    /\ heap' = [heap EXCEPT ![entry].started_at = value]
    /\ ret' = [op |-> "started_at", raised |-> "", entry |-> entry, value |-> value]
    /\ UNCHANGED <<config, user, entries, libVars>>

set_finished_at(entry, value) ==
    /\ heap' = [heap EXCEPT ![entry].finished_at = value]
    /\ ret' = [op |-> "finished_at", raised |-> "", entry |-> entry, value |-> value]
    /\ UNCHANGED <<config, user, entries, libVars>>

(***************************************************************************)
(* The second list provider: the same methods, on its own _entries and     *)
(* _user.                                                                  *)
(***************************************************************************)
\* the entry objects a caller can hold: those of heap and the second
\* provider's own
PeerRefs == Refs \cup {0 - i : i \in DOMAIN peer.objects}

Object(ref) == IF ref > 0 THEN heap[ref] ELSE peer.objects[0 - ref]

\* (variant: _entries is one mapping shared by the instances)
PeerGetEntryShared(key) == DictGet(entries, key)

PeerGetEntry(key) == DictGet(peer.entries, key)

PeerSearch(query) ==
    LET needle == Lower(query)
    IN  SelectSeq(DictValues(peer.entries),
                  LAMBDA ref : Contains(Lower(Object(ref).title), needle))

PeerBackup ==
    BackupPayload(peer.user.key, peer.entries, [ref \in PeerRefs |-> Object(ref)])

peer_backup_list ==
    /\ ret' = [op |-> "peer.backup_list", raised |-> "", val |-> PeerBackup]
    /\ UNCHANGED <<listVars, libVars, peer>>

peer_get_entry(key) ==
    /\ ret' = [op |-> "peer.get_entry", raised |-> "", key |-> key,
               val |-> PeerGetEntry(key)]
    /\ UNCHANGED <<listVars, libVars, peer>>

peer_search(query) ==
    /\ ret' = [op |-> "peer.search", raised |-> "", query |-> query,
               val |-> PeerSearch(query)]
    /\ UNCHANGED <<listVars, libVars, peer>>

peer_update_entry(key, entry) ==
    /\ peer' = [peer EXCEPT !.entries = DictSet(@, key, entry)]
    /\ ret' = [op |-> "peer.update_entry", raised |-> "", key |-> key,
               entry |-> entry, val |-> entry]
    /\ UNCHANGED <<listVars, libVars>>

(***************************************************************************)
(* Construction and the specifications.                                    *)
(***************************************************************************)
\* ExampleListProvider.__init__
InitList(configs) ==
    /\ config \in configs
    /\ user = [key |-> ConfigGet(config.user_key, "demo-user"),
               title |-> ConfigGet(config.user_title, "Demo List User")]
    /\ heap = ExampleEntryObjects
    /\ entries = ExampleEntries

\* ExampleLibraryProvider.__init__
InitLibrary(configs) ==
    /\ libConfig \in configs
    /\ libUser = [key |-> ConfigGet(libConfig.user_key, "demo-user"),
                  title |-> ConfigGet(libConfig.user_title, "Demo Library User")]
    /\ now = MaxDays
    /\ sections = FixtureSections
    /\ items = FixtureItems(now)

\* ExampleListProvider.__init__ of the second instance, without a config. Its
\* two seeded objects are referred to as -1 and -2: references above 0 are
\* the objects of heap.
InitPeer ==
    /\ peer = [config |-> NoConfig,
               user |-> [key |-> "demo-user", title |-> "Demo List User"],
               objects |-> ExampleEntryObjects,
               entries |-> [i \in DOMAIN ExampleEntryObjects |->
                              [key |-> ExampleEntryObjects[i].media.key, ref |-> 0 - i]]]
    /\ calls = 0

\* a configured list provider beside a library provider built as in
\* tests/conftest.py, without a config
Init ==
    /\ InitList(Configs)
    /\ InitLibrary({NoConfig})
    /\ InitPeer
    /\ ret = [op |-> "__init__", raised |-> ""]

\* the calls on the list provider, and the library's webhook entry point
Next ==
    /\ \/ backup_list
       \/ \E key \in Keys : build_entry(key)
       \/ \E key \in Keys : delete_entry(key)
       \/ \E key \in Keys : get_entry(key)
       \/ \E backup \in BackupArgs : restore_list(backup)
       \/ \E query \in Queries : search(query)
       \/ \E key \in Keys, entry \in Refs : update_entry(key, entry)
       \/ manual_restore
       \/ \E request \in Requests : parse_webhook(request)
    /\ UNCHANGED <<peer, calls>>

Spec == Init /\ [][Next]_vars

\* the calls on the library provider
NextLibrary ==
    /\ \/ get_sections
       \/ \E section \in SectionArgs, min_last_modified \in CutoffArgs,
             require_watched \in BOOLEAN, keys \in KeysArgs :
               list_items(section, min_last_modified, require_watched, keys)
       \/ \E request \in Requests : parse_webhook(request)
    /\ UNCHANGED <<peer, calls>>

\* a configured library provider beside a list provider built without a config
InitWithLibrary ==
    /\ InitList({NoConfig})
    /\ InitLibrary(Configs)
    /\ InitPeer
    /\ ret = [op |-> "__init__", raised |-> ""]

SpecLibrary == InitWithLibrary /\ [][NextLibrary]_vars

\* the lifecycle hooks of both providers, in any order and any number of
\* times, between the calls that store, remove and query entries
NextLifecycle ==
    /\ \/ backup_list
       \/ \E key \in Keys : delete_entry(key)
       \/ \E key \in Keys : get_entry(key)
       \/ \E query \in Queries : search(query)
       \/ \E key \in Keys, entry \in Refs : update_entry(key, entry)
       \/ get_sections
       \/ \E request \in Requests : parse_webhook(request)
       \/ initialize
       \/ clear_cache
       \/ close
       \/ list_user
       \/ library_initialize
       \/ library_clear_cache
       \/ library_close
       \/ library_user
    /\ UNCHANGED <<peer, calls>>

SpecLifecycle == Init /\ [][NextLifecycle]_vars

\* every call of the library provider
NextLibraryCalls ==
    \/ NextLibrary
    \/ /\ \/ library_initialize
          \/ library_clear_cache
          \/ library_close
          \/ library_user
       /\ UNCHANGED <<peer, calls>>

SpecLibraryCalls == InitWithLibrary /\ [][NextLibraryCalls]_vars

\* two list providers: at most MaxCalls calls, each on the first provider,
\* on an entry object of heap, or on the second provider
NextTwo ==
    /\ calls < MaxCalls
    /\ calls' = calls + 1
    /\ \/ /\ \/ backup_list
             \/ \E key \in Keys : build_entry(key)
             \/ \E key \in Keys : delete_entry(key)
             \/ \E key \in Keys : get_entry(key)
             \/ \E query \in Queries : search(query)
             \/ \E key \in Keys, entry \in Refs : update_entry(key, entry)
             \/ \E entry \in Refs, value \in ProgressArgs : set_progress(entry, value)
             \/ \E entry \in Refs, value \in RepeatsArgs : set_repeats(entry, value)
             \/ \E entry \in Refs, value \in ReviewArgs : set_review(entry, value)
             \/ \E entry \in Refs, value \in StatusArgs : set_status(entry, value)
             \/ \E entry \in Refs, value \in RatingArgs : set_user_rating(entry, value)
             \/ \E entry \in Refs, value \in StartedArgs : set_started_at(entry, value)
             \/ \E entry \in Refs, value \in FinishedArgs : set_finished_at(entry, value)
          /\ UNCHANGED peer
       \/ peer_backup_list
       \/ \E key \in Keys : peer_get_entry(key)
       \/ \E query \in Queries : peer_search(query)
       \/ \E key \in Keys, entry \in PeerRefs : peer_update_entry(key, entry)

SpecTwo == Init /\ [][NextTwo]_vars

(***************************************************************************)
(* Properties of list_items.                                               *)
(***************************************************************************)
\* an item passes every filter that is switched on
PassesFilters(item, section, min_last_modified, require_watched, keys) ==
    /\ item.section_ref.id = section.id
    /\ min_last_modified # None => item.last_modified >= min_last_modified[1]
    /\ require_watched => item.view_count > 0
    /\ keys # None => \E i \in DOMAIN keys[1] : keys[1][i] = item.key

IsOwnSection(section) == \E i \in DOMAIN sections : sections[i].id = section.id

\* C1: for the provider's own section, list_items returns exactly the fixture
\* items, in fixture order, that pass all the active filters at once: section
\* membership, last_modified >= cutoff (equality kept), view_count > 0 when
\* require_watched, key among keys when keys is given (an empty keys gives
\* nothing, keys=None filters nothing).
C1_FiltersCompose ==
    (ret.op = "list_items" /\ IsOwnSection(ret.section)) =>
        /\ ret.raised = ""
        /\ ret.val = SelectSeq(items, LAMBDA item :
                        PassesFilters(item, ret.section, ret.min_last_modified,
                                      ret.require_watched, ret.keys))
        /\ (ret.keys = Some(<<>>) => ret.val = <<>>)

\* all three filters on at once, the cutoff exactly at an item's last_modified
C1_Witness ==
    /\ ret.op = "list_items"
    /\ IsOwnSection(ret.section)
    /\ ret.min_last_modified = Some(items[1].last_modified)
    /\ ret.require_watched
    /\ ret.keys = Some(<<"castle-in-the-sky">>)
    /\ ret.val = <<items[1]>>

AllKeys == Keys \cup DictKeys(entries) \cup DictKeys(entries')

\* C3: update_entry(key, entry) is an upsert: it returns the entry it was
\* given, afterwards get_entry(key) is that same entry, every other key maps
\* to what it mapped to, and the number of entries grows by one when the key
\* was absent and stays the same when it was present.
C3_UpdateEntryUpserts ==
    [][ret'.op = "update_entry" =>
        /\ ret'.raised = ""
        /\ ret'.val = ret'.entry
        /\ DictGet(entries', ret'.key) = Some(ret'.entry)
        /\ \A k \in AllKeys \ {ret'.key} : DictGet(entries', k) = DictGet(entries, k)
        /\ Len(entries') = IF ret'.key \in DictKeys(entries)
                           THEN Len(entries) ELSE Len(entries) + 1
        /\ Cardinality(DictKeys(entries')) = Len(entries')
        /\ heap' = heap
    ]_vars

\* a deleted key was stored again, with a newly built entry: it comes last
C3_Witness ==
    /\ ret.op = "update_entry"
    /\ ret.key = "cowboy-bebop"
    /\ ret.entry = 3
    /\ [i \in DOMAIN entries |-> entries[i].key] = <<"your-name", "cowboy-bebop">>
    /\ GetEntry("cowboy-bebop") = Some(ret.entry)

\* the mapping without the key, the other pairs in their order
Without(map, key) ==
    LET keep == {i \in DOMAIN map : map[i].key # key}
        nth(n) == CHOOSE i \in keep : Cardinality({j \in keep : j < i}) = n - 1
    IN  [n \in 1..Cardinality(keep) |-> map[nth(n)]]

\* C4: after delete_entry(key), get_entry(key) is None and the entries under
\* all other keys are unchanged; for an absent key it raises nothing and
\* leaves the mapping, content and order, as it was, so that a second
\* delete_entry(key) changes nothing.
C4_DeleteEntryRemoves ==
    [][ret'.op = "delete_entry" =>
        /\ ret'.raised = ""
        /\ DictGet(entries', ret'.key) = None
        /\ \A k \in AllKeys \ {ret'.key} : DictGet(entries', k) = DictGet(entries, k)
        /\ entries' = Without(entries, ret'.key)
        /\ (ret'.key \notin DictKeys(entries) => entries' = entries)
        /\ Without(entries', ret'.key) = entries'
        /\ heap' = heap
    ]_vars

\* delete_entry of a key when nothing is stored any more
C4_Witness ==
    /\ ret.op = "delete_entry"
    /\ ret.raised = ""
    /\ ret.key = "your-name"
    /\ entries = <<>>

\* the query occurs in the title, both compared without regard to case
TitleMatches(title, query) ==
    \E off \in 0..(Len(title) - Len(query)) :
        \A j \in 1..Len(query) : LowerChar(title[off + j]) = LowerChar(query[j])

\* the references of the pairs of `map` whose entry's title matches, in order
Matching(map, objects, query) ==
    LET hits == {i \in DOMAIN map : TitleMatches(objects[map[i].ref].title, query)}
        nth(n) == CHOOSE i \in hits : Cardinality({j \in hits : j < i}) = n - 1
    IN  [n \in 1..Cardinality(hits) |-> map[nth(n)].ref]

SameRecordedFields(a, b) ==
    /\ a.key = b.key
    /\ a.title = b.title
    /\ a.status = b.status
    /\ a.progress = b.progress
    /\ a.repeats = b.repeats
    /\ a.review = b.review
    /\ a.user_rating = b.user_rating
    /\ a.started_at = b.started_at
    /\ a.finished_at = b.finished_at
    /\ a.media.media_type = b.media.media_type
    /\ TotalUnits(a) = TotalUnits(b)

\* the second mapping holds the keys of the first, and under each key an
\* entry with the same recorded fields
SameEntrySet(map1, objects1, map2, objects2) ==
    /\ DictKeys(map2) = DictKeys(map1)
    /\ \A k \in DictKeys(map1) :
        SameRecordedFields(objects1[DictGet(map1, k)[1]], objects2[DictGet(map2, k)[1]])

\* C6: from any state, taking a backup, deleting every stored key, then
\* decoding each record and re-inserting it with update_entry(entry.key, entry)
\* recovers the original entry set: the same mapping keys, and under each key
\* an entry with the same recorded fields.
C6_BackupRoundTrips ==
    [][ret'.op = "manual_restore" => SameEntrySet(entries, heap, entries', heap')]_vars

\* C7: in every reachable state each key of the mapping maps to exactly one
\* entry, and that entry's own key, and its media's key, is the mapping key.
C7_KeyedByMediaKey ==
    \A i \in DOMAIN entries :
        /\ \A j \in DOMAIN entries : entries[j].key = entries[i].key => j = i
        /\ heap[entries[i].ref].key = entries[i].key
        /\ heap[entries[i].ref].media.key = entries[i].key

\* C8: backup_list emits the configured user key ("demo-user" by default)
\* and one record per stored entry, in the mapping's order, as the mapping
\* stands after the updates and deletes so far; it leaves the mapping
\* unchanged, and a second call right after it returns the same document.
C8_BackupListsEveryEntry ==
    [][ret'.op = "backup_list" =>
        /\ ret'.raised = ""
        /\ ret'.val.user = ConfigGet(config.user_key, "demo-user")
        /\ Len(ret'.val.entries) = Len(entries)
        /\ \A i \in DOMAIN entries :
            ret'.val.entries[i] = EncodeEntry(heap[entries[i].ref])
        /\ entries' = entries
        /\ heap' = heap
        /\ user' = user
        /\ (ret.op = "backup_list" => ret'.val = ret.val)
    ]_vars

\* a configured user key, and a mapping that updates and deletes have changed
C8_Witness ==
    /\ ret.op = "backup_list"
    /\ ret.val.user = "alice"
    /\ Len(ret.val.entries) = 1
    /\ ret.val.entries[1].key = "cowboy-bebop"
    /\ ret.val.entries[1].progress = None
    /\ entries = << [key |-> "cowboy-bebop", ref |-> 3] >>

\* C9: restore_list raises the not-implemented error for every argument and
\* in every state and leaves the entry mapping as it was; parse_webhook
\* raises it for every request and leaves the sections and items as they
\* were; after either, every query answers as before.
C9_FailurePathsChangeNothing ==
    [][ret'.op \in {"restore_list", "parse_webhook"} =>
        /\ ret'.raised = "NotImplementedError"
        /\ entries' = entries
        /\ heap' = heap
        /\ user' = user
        /\ sections' = sections
        /\ items' = items
        /\ libUser' = libUser
        /\ \A k \in Keys : GetEntry(k)' = GetEntry(k)
        /\ \A q \in Queries : Search(q)' = Search(q)
        /\ Backup' = Backup
        /\ \A s \in SectionArgs :
            ListItems(s, None, FALSE, None)' = ListItems(s, None, FALSE, None)
    ]_vars

\* restore_list has failed on a provider whose mapping was changed before
C9_Witness ==
    /\ ret.op = "restore_list"
    /\ ret.raised = "NotImplementedError"
    /\ entries # ExampleEntries
    /\ Len(heap) > Len(ExampleEntryObjects)

\* C10: build_entry(key) returns a new entry that is not stored: its key is
\* key, its media type TV, and progress, status, repeats, review, rating and
\* timestamps are unset; the mapping is unchanged, so get_entry, search and
\* backup_list answer as before (an absent key stays absent).
C10_BuildEntryDoesNotStore ==
    [][ret'.op = "build_entry" =>
        LET entry == heap'[ret'.val] IN
        /\ ret'.raised = ""
        /\ ret'.val \notin Refs
        /\ \A r \in Refs : heap'[r] = heap[r]
        /\ entry.key = ret'.key
        /\ entry.media.key = ret'.key
        /\ entry.media.media_type = "TV"
        /\ entry.progress = None /\ entry.status = None /\ entry.repeats = None
        /\ entry.review = None /\ entry.user_rating = None
        /\ entry.started_at = None /\ entry.finished_at = None
        /\ entries' = entries
        /\ \A i \in DOMAIN entries' : entries'[i].ref # ret'.val
        /\ \A k \in Keys : GetEntry(k)' = GetEntry(k)
        /\ \A q \in Queries : Search(q)' = Search(q)
        /\ Backup' = Backup
    ]_vars

\* an entry built for a key that is not stored: the key stays absent
C10_Witness ==
    /\ ret.op = "build_entry"
    /\ ret.key = "your-name"
    /\ GetEntry("your-name") = None
    /\ heap[ret.val].title = YourNameTitle

(***************************************************************************)
(* Properties of the lifecycle hooks.                                      *)
(***************************************************************************)
HookOps ==
    {"initialize", "clear_cache", "close",
     "library.initialize", "library.clear_cache", "library.close"}

\* C11: initialize(), clear_cache() and close() of either provider, called
\* at any point of a sequence of calls and any number of times, return None
\* without raising and leave the entry mapping, the entry objects, the
\* sections, the items and both user descriptors as they were, so that
\* get_entry, search, backup_list, get_sections and list_items answer after
\* the hook what they answered before it.
C11_HooksAreNoOps ==
    [][ret'.op \in HookOps =>
          /\ ret'.raised = ""
          /\ ret'.val = None
          /\ entries' = entries /\ heap' = heap
          /\ sections' = sections /\ items' = items
          /\ user' = user /\ libUser' = libUser
          /\ \A key \in Keys : GetEntry(key)' = GetEntry(key)
          /\ \A query \in Queries : Search(query)' = Search(query)
          /\ Backup' = Backup
          /\ \A section \in SectionArgs :
                 ListItems(section, None, FALSE, None)'
                     = ListItems(section, None, FALSE, None)]_vars

\* close() has just returned on a list provider whose mapping was changed
\* by earlier calls and still holds those changes
C11_Witness ==
    /\ ret.op = "close"
    /\ ret.raised = ""
    /\ entries # ExampleEntries
    /\ entries # <<>>

(***************************************************************************)
(* Properties of the library fixtures.                                     *)
(***************************************************************************)
IsUnfiltered(call) ==
    /\ call.min_last_modified = None
    /\ ~call.require_watched
    /\ call.keys = None

\* C12: whatever get_sections, list_items, parse_webhook, initialize,
\* clear_cache, close and user calls were made on the library provider, it
\* has exactly one section, titled "Demo Movies" with media kind MOVIE,
\* which is what get_sections returns, and list_items without filters on
\* that section returns the two movies castle-in-the-sky and nausicaa, in
\* that order, with the fields they were built with.
C12_FixturesAreReadOnly ==
    /\ Len(sections) = 1
    /\ sections[1].title = "Demo Movies"
    /\ sections[1].media_kind = "MOVIE"
    /\ sections = FixtureSections
    /\ LET all == ListItems(sections[1], None, FALSE, None)
       IN  /\ Len(all) = 2
           /\ all[1].key = "castle-in-the-sky"
           /\ all[2].key = "nausicaa"
           /\ all = FixtureItems(MaxDays)
    /\ ret.op = "get_sections" => ret.val = FixtureSections
    /\ (ret.op = "list_items" /\ ret.section = sections[1] /\ IsUnfiltered(ret))
           => ret.val = FixtureItems(MaxDays)

\* list_items without filters on the provider's section has just returned
\* two movies
C12_Witness ==
    /\ ret.op = "list_items"
    /\ ret.section = sections[1]
    /\ IsUnfiltered(ret)
    /\ Len(ret.val) = 2

(***************************************************************************)
(* Properties of two list providers and of entries held by reference.      *)
(***************************************************************************)
SetterOps ==
    {"progress", "repeats", "review", "status", "user_rating",
     "started_at", "finished_at"}

Field(entry, name) ==
    CASE name = "progress"    -> entry.progress
      [] name = "repeats"     -> entry.repeats
      [] name = "review"      -> entry.review
      [] name = "status"      -> entry.status
      [] name = "user_rating" -> entry.user_rating
      [] name = "started_at"  -> entry.started_at
      [] name = "finished_at" -> entry.finished_at

\* the step leaves every answer of the second provider as it was: the
\* entry get_entry returns and its fields, the entries search returns, and
\* the document backup_list returns
PeerUnchanged ==
    /\ \A key \in Keys :
          /\ PeerGetEntry(key)' = PeerGetEntry(key)
          /\ PeerGetEntry(key) # None =>
                 Object(PeerGetEntry(key)[1])' = Object(PeerGetEntry(key)[1])
    /\ \A query \in Queries : PeerSearch(query)' = PeerSearch(query)
    /\ PeerBackup' = PeerBackup

\* C13: no build_entry, update_entry or delete_entry call on provider A and
\* no field update on an entry object changes what get_entry, search or
\* backup_list return on provider B, also when an entry obtained from A has
\* been stored into B with update_entry.
C13_NoSharedState ==
    [][ret'.op \in {"build_entry", "update_entry", "delete_entry"} \cup SetterOps
          => PeerUnchanged]_vars

\* C13, amended: build_entry, update_entry and delete_entry on A never
\* change what get_entry, search or backup_list return on B. A field update
\* on an entry never changes which entries B's get_entry and search return,
\* and changes B's answers only when that very object is stored in B's
\* mapping: B holds it by reference, so B's backup_list then reports the
\* new value of the field for every key B stores the object under.
C13_SharedOnlyByReference ==
    [][/\ ret'.op \in {"build_entry", "update_entry", "delete_entry"}
             => PeerUnchanged
       /\ ret'.op \in SetterOps =>
             /\ peer' = peer
             /\ \A key \in Keys : PeerGetEntry(key)' = PeerGetEntry(key)
             /\ \A query \in Queries : PeerSearch(query)' = PeerSearch(query)
             /\ ret'.entry \notin Range(DictValues(peer.entries)) => PeerUnchanged
             /\ \A i \in DOMAIN peer.entries :
                   peer.entries[i].ref = ret'.entry =>
                      Field(DecodeEntry(PeerBackup'.entries[i]), ret'.op)
                          = ret'.value]_vars

\* the progress of an entry object of the first provider that B stores has
\* just been set, and B's backup document reports it
C13_Witness ==
    /\ ret.op = "progress"
    /\ ret.value = Some(12)
    /\ \E i \in DOMAIN peer.entries :
          /\ peer.entries[i].ref = ret.entry
          /\ PeerBackup.entries[i].progress = Some(12)

\* C14: update_entry(k, e) stores the object e itself, so get_entry(k)
\* returns that very object; setting progress, repeats, review, status,
\* user_rating, started_at or finished_at on an entry object leaves the
\* mapping untouched and is seen at once, without any update_entry call,
\* by get_entry and backup_list for every key the object is stored under,
\* so the backup document changes whenever the new value differs from the
\* old one.
C14_HeldByReference ==
    [][/\ ret'.op = "update_entry" =>
             /\ ret'.val = ret'.entry
             /\ DictGet(entries', ret'.key) = Some(ret'.entry)
       /\ ret'.op = "get_entry" => ret'.val = GetEntry(ret'.key)
       /\ ret'.op \in SetterOps =>
             /\ entries' = entries
             /\ Field(heap'[ret'.entry], ret'.op) = ret'.value
             /\ \A i \in DOMAIN entries :
                   entries[i].ref = ret'.entry =>
                      /\ GetEntry(entries[i].key)' = Some(ret'.entry)
                      /\ Field(DecodeEntry(Backup'.entries[i]), ret'.op) = ret'.value
                      /\ Field(heap[ret'.entry], ret'.op) # ret'.value
                            => Backup' # Backup]_vars

\* get_entry has just returned a seeded entry whose fields are no longer
\* those it was built with, while the mapping is as it was constructed
C14_Witness ==
    /\ ret.op = "get_entry"
    /\ ret.val # None
    /\ entries = ExampleEntries
    /\ \E ref \in DOMAIN ExampleEntryObjects :
          /\ ret.val = Some(ref)
          /\ heap[ref] # ExampleEntryObjects[ref]

====
